---- MODULE Spec2Model ----
(***************************************************************************)
(* postgres-explorer: the background-job registry with live log streaming  *)
(* (handlers/export.rs, handlers/console.rs) and the single-flight         *)
(* metadata caches (handlers/schemas.rs, tables.rs, indices.rs).           *)
(*                                                                         *)
(* Every tokio RwLock critical section of the source is one atomic action; *)
(* every .await between two critical sections is an interleaving point.    *)
(***************************************************************************)
EXTENDS Integers, Sequences, FiniteSets, TLC

(***************************************************************************)
(* Program constants.                                                      *)
(***************************************************************************)
\* handlers/mod.rs:41  CACHE_TTL = Duration::from_secs(15 * 60), in seconds.
CACHE_TTL == 900

(***************************************************************************)
(* Bounds of the model.                                                    *)
(***************************************************************************)
\* The clock advances in steps of TickStep seconds up to MaxTime: an entry is
\* exactly CACHE_TTL old one step after its fetch and older after two.
TickStep == 900
MaxTime == 1900
\* Total number of get_cached_* calls in one behaviour.
MaxCalls == 3

(***************************************************************************)
(* The metadata caches.                                                    *)
(***************************************************************************)
\* AppState.schemas_cache, tables_cache, indices_cache.
Caches == {"schemas", "tables", "indices"}
\* Endpoint ids (the HashMap keys, active.id).
Keys == {1, 2}
\* Request-handling tasks that call get_cached_*.
Callers == {"c1", "c2"}
\* What fetch_*_from_db can return on success: a list of rows (possibly empty).
DbSnapshots == {<<>>, <<"r1">>}
\* Endpoint.url: the URL stored for the endpoint, and the URL activate_database
\* makes of it for another database of the same server.
Urls == {"base", "db2"}
\* The rows the database at a URL holds: the other database has rows of its own.
RowsAt(url) == IF url = "base" THEN DbSnapshots ELSE {<<"r2">>}
\* Result<Vec<Row>, String> of fetch_*_from_db.
FetchResults ==
    [ok : {TRUE}, rows : UNION {RowsAt(u) : u \in Urls}] \cup {[ok |-> FALSE, rows |-> <<>>]}

VARIABLES
    now,        \* the clock read by Instant::now()
    cache,      \* cache[c] : the HashMap of cache c, a function key -> CacheEntry
    tasks,      \* tasks[c][k] : the refresh tasks spawned for (c, k), not yet written back
    call,       \* call[p] : the position of caller p inside get_cached_*
    ret,        \* what the most recent get_cached_* call returned, and to whom
    ncalls,     \* number of get_cached_* calls begun so far
    stored,     \* stored[c][k] : the data written when fetched_at was last set
    refreshed,  \* refreshed[c][k] : some refresh task for (c, k) has finished its write-back
    fetched_ok, \* fetched_ok[c][k] : the entry's data was written by a successful fetch
    fetches     \* fetches[c][k] : number of refresh tasks spawned

cacheVars == <<now, cache, tasks, call, ret, ncalls, stored, refreshed, fetched_ok, fetches>>

VARIABLES
    export_jobs, \* AppState.export_jobs : a function job id -> ExportJob
    runner,      \* runner[j] : the position of job j's runner task
    proc,        \* proc[j] : job j's subprocess: not spawned, running, or exited with a code
    drain,       \* drain[j] : the stdout and stderr reader tasks of job j
    conn,        \* conn[s] : the unfold state of log-stream connection s
    history,     \* history[j] : every line ever appended to job j's log, in order
    finals       \* finals[j] : the statuses complete_job has written to job j, in order

jobVars == <<export_jobs, runner, proc, drain, conn, history, finals>>

VARIABLES
    active_override, \* AppState.active_override : None, or the endpoint activate_database stored
    handler,         \* handler[h] : the position of request handler h on the job registry
    filter           \* the arguments and the results of one call into utils/filter.rs

reqVars == <<active_override, handler, filter>>

vars == <<now, cache, tasks, call, ret, ncalls, stored, refreshed, fetched_ok, fetches,
          export_jobs, runner, proc, drain, conn, history, finals,
          active_override, handler, filter>>

\* CacheEntry { data, fetched_at, fetching }
CacheEntry(data, fetched_at, fetching) ==
    [data |-> data, fetched_at |-> fetched_at, fetching |-> fetching]

\* Instant::duration_since saturates at zero when the argument is later.
duration_since(later, earlier) == IF later >= earlier THEN later - earlier ELSE 0

\* stale = now.duration_since(entry.fetched_at) > CACHE_TTL
IsStale(t, entry) == duration_since(t, entry.fetched_at) > CACHE_TTL

IdleCall == [pc |-> "idle", cache |-> "schemas", key |-> 1, now |-> 0, url |-> "base"]
NoRet == [has |-> FALSE]

InitCache ==
    /\ now = 0
    /\ cache = [c \in Caches |-> <<>>]
    /\ tasks = [c \in Caches |-> [k \in Keys |-> <<>>]]
    /\ call = [p \in Callers |-> IdleCall]
    /\ ret = NoRet
    /\ ncalls = 0
    /\ stored = [c \in Caches |-> [k \in Keys |-> <<>>]]
    /\ refreshed = [c \in Caches |-> [k \in Keys |-> FALSE]]
    /\ fetched_ok = [c \in Caches |-> [k \in Keys |-> FALSE]]
    /\ fetches = [c \in Caches |-> [k \in Keys |-> 0]]

\* Time passes.
Tick ==
    /\ now + TickStep <= MaxTime
    /\ now' = now + TickStep
    /\ UNCHANGED <<cache, tasks, call, ret, ncalls, stored, refreshed, fetched_ok, fetches>>
    /\ UNCHANGED jobVars
    /\ UNCHANGED reqVars

\* The three maps have separate locks and no operation on one reads or writes
\* another, so one behaviour requests one listing type (any of the three).
OneListing(c) ==
    /\ \A d \in Caches \ {c} : DOMAIN cache[d] = {}
    /\ \A q \in Callers : call[q].pc = "lock" => call[q].cache = c

\* get_active_endpoint for a request whose cookie names endpoint k: the
\* override if there is one, else the endpoint as stored.
ActiveEndpoint(k) ==
    IF active_override.some
    THEN [id |-> active_override.id, url |-> active_override.url]
    ELSE [id |-> k, url |-> "base"]

\* The handler's get_active_endpoint, and get_cached_* up to
\* `let now = Instant::now();`, before the lock is taken.
GetCachedBegin(p, c, k) ==
    /\ call[p].pc = "idle"
    /\ ncalls < MaxCalls
    /\ OneListing(c)
    /\ ActiveEndpoint(k).id = k
    /\ call' = [call EXCEPT ![p] = [pc |-> "lock", cache |-> c, key |-> k, now |-> now,
                                    url |-> ActiveEndpoint(k).url]]
    /\ ncalls' = ncalls + 1
    /\ UNCHANGED <<now, cache, tasks, ret, stored, refreshed, fetched_ok, fetches>>
    /\ UNCHANGED jobVars
    /\ UNCHANGED reqVars

\* Mutant of HitEntry: the refresh is scheduled but the fetching flag is not set.
HitEntry_FlagNotSet(t, entry) == entry

\* The entry as the hit branch leaves it: fetching is set when a refresh is due.
HitEntry(t, entry) ==
    IF IsStale(t, entry) /\ ~entry.fetching
    THEN [entry EXCEPT !.fetching = TRUE]
    ELSE entry

\* Mutant of HitShouldRefresh: a stale entry is refreshed whether or not a
\* refresh is already under way.
HitShouldRefresh_IgnoresFetching(t, entry) == IsStale(t, entry)

\* should_refresh in the hit branch.
HitShouldRefresh(t, entry) == IsStale(t, entry) /\ ~entry.fetching

\* Mutant of MissEntry: the inserted entry does not carry the fetching flag.
MissEntry_NotFetching(t) == CacheEntry(<<>>, t, FALSE)

\* The entry the miss branch inserts.
MissEntry(t) == CacheEntry(<<>>, t, TRUE)

\* get_cached_*: the critical section under cache.write(), the tokio::spawn that
\* follows it when should_refresh is set, and the return of (data, fetching).
GetCachedLock(p) ==
    /\ call[p].pc = "lock"
    /\ LET c == call[p].cache
           k == call[p].key
           t == call[p].now
           hit == k \in DOMAIN cache[c]
           entry == IF hit THEN HitEntry(t, cache[c][k]) ELSE MissEntry(t)
           should_refresh == IF hit THEN HitShouldRefresh(t, cache[c][k]) ELSE TRUE
       IN /\ cache' = [cache EXCEPT ![c] = (k :> entry) @@ @]
          /\ tasks' = IF should_refresh
                      THEN [tasks EXCEPT ![c][k] = Append(@, [st |-> "fetching", url |-> call[p].url,
                                                              result |-> [ok |-> FALSE, rows |-> <<>>]])]
                      ELSE tasks
          /\ fetches' = IF should_refresh
                        THEN [fetches EXCEPT ![c][k] = @ + 1]
                        ELSE fetches
          /\ stored' = IF hit THEN stored ELSE [stored EXCEPT ![c][k] = <<>>]
          /\ ret' = [has |-> TRUE, caller |-> p, cache |-> c, key |-> k,
                      data |-> entry.data, fetching |-> entry.fetching,
                      hit |-> hit, scheduled |-> should_refresh,
                      within_ttl |-> t >= entry.fetched_at /\ t - entry.fetched_at <= CACHE_TTL,
                      aged |-> t > entry.fetched_at,
                      snapshot |-> IF hit THEN stored[c][k] ELSE <<>>,
                      first_pending |-> ~refreshed[c][k],
                      from_fetch |-> hit /\ fetched_ok[c][k],
                      url |-> call[p].url]
    /\ call' = [call EXCEPT ![p] = IdleCall]
    /\ UNCHANGED <<now, ncalls, refreshed, fetched_ok>>
    /\ UNCHANGED jobVars
    /\ UNCHANGED reqVars

\* The refresh task: fetch_*_from_db(...).await, outside any lock.
RefreshFetch(c, k, i, result) ==
    /\ i \in 1..Len(tasks[c][k])
    /\ tasks[c][k][i].st = "fetching"
    /\ result.ok => result.rows \in RowsAt(tasks[c][k][i].url)
    /\ tasks' = [tasks EXCEPT ![c][k][i] = [@ EXCEPT !.st = "fetched", !.result = result]]
    /\ UNCHANGED <<now, cache, call, ret, ncalls, stored, refreshed, fetched_ok, fetches>>
    /\ UNCHANGED jobVars
    /\ UNCHANGED reqVars

\* Mutant of WriteBackEntry: a failed fetch clears the data it could not replace.
WriteBackEntry_ClearOnError(entry, result, t) ==
    IF result.ok
    THEN CacheEntry(result.rows, t, FALSE)
    ELSE [entry EXCEPT !.fetching = FALSE, !.data = <<>>]

\* Mutant of WriteBackEntry: fetched_at is stamped whether or not the fetch
\* succeeded.
WriteBackEntry_StampOnError(entry, result, t) ==
    IF result.ok
    THEN CacheEntry(result.rows, t, FALSE)
    ELSE [entry EXCEPT !.fetching = FALSE, !.fetched_at = t]

\* Mutant of WriteBackEntry: fetching is reset only after a successful fetch.
WriteBackEntry_StuckOnError(entry, result, t) ==
    IF result.ok
    THEN CacheEntry(result.rows, t, FALSE)
    ELSE entry

\* The entry as the refresh task's write-back leaves it.
WriteBackEntry(entry, result, t) ==
    IF result.ok
    THEN CacheEntry(result.rows, t, FALSE)
    ELSE [entry EXCEPT !.fetching = FALSE]

RemoveAt(s, i) == [j \in 1..(Len(s) - 1) |-> IF j < i THEN s[j] ELSE s[j + 1]]

\* The refresh task: the critical section under cache.write() after the fetch.
RefreshWriteBack(c, k, i) ==
    /\ i \in 1..Len(tasks[c][k])
    /\ tasks[c][k][i].st = "fetched"
    /\ LET result == tasks[c][k][i].result
       IN /\ cache' = IF k \in DOMAIN cache[c]
                      THEN [cache EXCEPT ![c][k] = WriteBackEntry(@, result, now)]
                      ELSE cache
          /\ stored' = IF k \in DOMAIN cache[c] /\ result.ok
                       THEN [stored EXCEPT ![c][k] = result.rows]
                       ELSE stored
    /\ tasks' = [tasks EXCEPT ![c][k] = RemoveAt(@, i)]
    /\ refreshed' = [refreshed EXCEPT ![c][k] = TRUE]
    /\ fetched_ok' = IF k \in DOMAIN cache[c] /\ tasks[c][k][i].result.ok
                     THEN [fetched_ok EXCEPT ![c][k] = TRUE]
                     ELSE fetched_ok
    /\ UNCHANGED <<now, call, ret, ncalls, fetches>>
    /\ UNCHANGED jobVars
    /\ UNCHANGED reqVars


(***************************************************************************)
(* The job registry, the job runners and the log streams.                  *)
(***************************************************************************)
\* handlers/export.rs:71  MAX_LOG_LINES = 10000, scaled down to 10 lines: the
\* runners' own header and trailer lines keep their real number (8 for a
\* successful export), so a job can stay below the capacity or exceed it.
MAX_LOG_LINES == 10
\* handlers/console.rs:241 and :263  MAX_OUTPUT_LINES = 100, scaled down to 2.
MAX_OUTPUT_LINES == 2
\* handlers/export.rs:885  the keepalive test `last_index % 50 == 0`.
KEEPALIVE_EVERY == 50

\* Lines read from a subprocess's stdout and from its stderr in one behaviour.
MaxOut == 2
MaxErr == 1

\* Job ids (format!("export_{}", uuid), "import_...", "console_...").
JobIds == {"j1"}
\* Log-stream connections (one GET of the SSE endpoint each).
Conns == {"s1"}
\* Which runner owns the job.
Kinds == {"export", "import", "console"}
\* How a stderr line reads: plain, carrying an error marker that is not in the
\* non-critical list, carrying one that is, or carrying WARNING/NOTICE.
ErrClasses == {"plain", "crit", "noncrit", "warn"}

Terminal == {"Completed", "Failed"}

\* ExportJob as start_export, start_import and execute_query create it.
NewJob(j, t) ==
    [job_id |-> j, status |-> "Running", logs |-> <<>>, started_at |-> t,
     completed_at |-> -1, file_path |-> "none", error |-> "none"]

NoRunner == [kind |-> "none", pc |-> "none", todo |-> 0, after |-> "none",
             file |-> "none", error |-> "none", n |-> 0,
             read_only |-> FALSE, create_db |-> FALSE]
NoProc == [st |-> "none", code |-> 0]
NoReader == [st |-> "none", read |-> 0, todo |-> 0]
NoDrain == [out |-> NoReader, err |-> NoReader, error_lines |-> <<>>]
NoConn == [st |-> "closed", job |-> "j1", last_index |-> 0, delivered |-> <<>>,
           ended_by |-> "none"]

InitJobs ==
    /\ export_jobs = <<>>
    /\ runner = [j \in JobIds |-> NoRunner]
    /\ proc = [j \in JobIds |-> NoProc]
    /\ drain = [j \in JobIds |-> NoDrain]
    /\ conn = [s \in Conns |-> NoConn]
    /\ history = [j \in JobIds |-> <<>>]
    /\ finals = [j \in JobIds |-> <<>>]

\* Request handlers that read the job registry.
Handlers == {"h1"}
\* active_override = None.
NoOverride == [some |-> FALSE, id |-> 1, url |-> "base"]
NoHandler == [op |-> "none", pc |-> "idle", job |-> "none", guard |-> FALSE,
              resp |-> [code |-> "none"]]

\* No call into utils/filter.rs.  A string is the sequence of its characters.
NoFilter == [pc |-> "none", expr |-> <<>>, names |-> <<>>,
             includes |-> <<>>, excludes |-> <<>>, result |-> <<>>]

InitReq ==
    /\ active_override = NoOverride
    /\ handler = [h \in Handlers |-> NoHandler]
    /\ filter = NoFilter

Init == InitCache /\ InitJobs /\ InitReq

\* Mutant of PushBounded: a full buffer is not evicted.
PushBounded_NoEvict(logs, line) == Append(logs, line)

\* job.logs.push_back(line); if job.logs.len() > MAX_LOG_LINES { job.logs.pop_front(); }
PushBounded(logs, line) ==
    LET pushed == Append(logs, line)
    IN IF Len(pushed) > MAX_LOG_LINES THEN Tail(pushed) ELSE pushed

\* Mutant of AppendLog: the line goes to every job of the registry.
AppendLog_EveryJob(jobs, j, line) ==
    [i \in DOMAIN jobs |-> [jobs[i] EXCEPT !.logs = PushBounded(@, line)]]

\* append_log: the registry as one call leaves it (nothing when the id is unknown).
AppendLog(jobs, j, line) ==
    IF j \in DOMAIN jobs
    THEN [jobs EXCEPT ![j].logs = PushBounded(@, line)]
    ELSE jobs

\* Mutant of CompleteJob: the completion time is not recorded.
CompleteJob_NoTimestamp(jobs, j, file_path, error, t) ==
    IF j \in DOMAIN jobs
    THEN [jobs EXCEPT ![j].status = IF error # "none" THEN "Failed" ELSE "Completed",
                      ![j].file_path = file_path,
                      ![j].error = error]
    ELSE jobs

\* complete_job: the registry as one call leaves it (nothing when the id is unknown).
CompleteJob(jobs, j, file_path, error, t) ==
    IF j \in DOMAIN jobs
    THEN [jobs EXCEPT ![j].status = IF error # "none" THEN "Failed" ELSE "Completed",
                      ![j].completed_at = t,
                      ![j].file_path = file_path,
                      ![j].error = error]
    ELSE jobs

\* One append_log (or append_log_with_file) call by some task of job j.
DoAppend(j, line) ==
    /\ export_jobs' = AppendLog(export_jobs, j, line)
    /\ history' = IF j \in DOMAIN export_jobs
                  THEN [history EXCEPT ![j] = Append(@, line)]
                  ELSE history

\* The runner's own lines are numbered in the order it appends them.
RunLine(r) == <<"run", r.n + 1, "">>

\* The runner is about to make `count` append_log calls and then go to `after`.
Say(r, count, after) ==
    [r EXCEPT !.pc = IF count = 0 THEN after ELSE "append",
              !.todo = count, !.after = after]

\* The runner is about to make `count` append_log calls and then call
\* complete_job(file_path, error).
Finish(r, count, file_path, error) ==
    [Say(r, count, "complete") EXCEPT !.file = file_path, !.error = error]

\* start_export: insert the job and spawn run_export_job.
StartExport(j) ==
    /\ j \notin DOMAIN export_jobs
    /\ export_jobs' = (j :> NewJob(j, now)) @@ export_jobs
    /\ runner' = [runner EXCEPT ![j] = [NoRunner EXCEPT !.kind = "export", !.pc = "start"]]
    /\ UNCHANGED <<proc, drain, conn, history, finals>>
    /\ UNCHANGED cacheVars
    /\ UNCHANGED reqVars

\* start_import (the import file exists): insert the job and spawn run_import_job.
StartImport(j, create_db) ==
    /\ j \notin DOMAIN export_jobs
    /\ export_jobs' = (j :> NewJob(j, now)) @@ export_jobs
    /\ runner' = [runner EXCEPT ![j] = [NoRunner EXCEPT !.kind = "import", !.pc = "start",
                                                        !.create_db = create_db]]
    /\ UNCHANGED <<proc, drain, conn, history, finals>>
    /\ UNCHANGED cacheVars
    /\ UNCHANGED reqVars

\* execute_query (not rejected as destructive, safe_mode off): insert the job and
\* spawn run_psql_query.
ExecuteQuery(j, read_only) ==
    /\ j \notin DOMAIN export_jobs
    /\ export_jobs' = (j :> NewJob(j, now)) @@ export_jobs
    /\ runner' = [runner EXCEPT ![j] = [NoRunner EXCEPT !.kind = "console", !.pc = "start",
                                                        !.read_only = read_only]]
    /\ UNCHANGED <<proc, drain, conn, history, finals>>
    /\ UNCHANGED cacheVars
    /\ UNCHANGED reqVars

\* run_export_job / run_import_job up to the log file's creation, and the
\* header lines each runner announces; run_psql_query has no log file.
RunnerStart(j, ok) ==
    /\ runner[j].pc = "start"
    /\ runner[j].kind = "console" => ok
    /\ runner' = [runner EXCEPT ![j] =
          CASE ~ok -> Finish(@, 1, "none", "log_file")
            [] ok /\ @.kind = "export" -> Say(@, 4, "spawn")
            [] ok /\ @.kind = "import" ->
                 IF @.create_db THEN Say(@, 5, "createdb") ELSE Say(@, 4, "spawn")
            [] ok /\ @.kind = "console" -> Say(@, IF @.read_only THEN 4 ELSE 3, "spawn")]
    /\ UNCHANGED <<export_jobs, proc, drain, conn, history, finals>>
    /\ UNCHANGED cacheVars
    /\ UNCHANGED reqVars

\* One append_log / append_log_with_file call of the runner task.
RunnerAppend(j) ==
    /\ runner[j].pc = "append"
    /\ runner[j].todo > 0
    /\ DoAppend(j, RunLine(runner[j]))
    /\ runner' = [runner EXCEPT ![j].n = @ + 1,
                                ![j].todo = @ - 1,
                                ![j].pc = IF runner[j].todo = 1 THEN runner[j].after ELSE "append"]
    /\ UNCHANGED <<proc, drain, conn, finals>>
    /\ UNCHANGED cacheVars
    /\ UNCHANGED reqVars

\* run_import_job, step 1: psql -c "CREATE DATABASE ..." run to completion.
RunnerCreateDb(j, ok) ==
    /\ runner[j].pc = "createdb"
    /\ runner' = [runner EXCEPT ![j] =
          IF ok THEN Say(@, 2, "spawn") ELSE Finish(@, 1, "none", "create_db")]
    /\ UNCHANGED <<export_jobs, proc, drain, conn, history, finals>>
    /\ UNCHANGED cacheVars
    /\ UNCHANGED reqVars

RunningReader == [st |-> "running", read |-> 0, todo |-> 0]

\* Mutant of RunnerSpawn: a failed spawn is noted and tried once more before
\* the job is finalized.
RunnerSpawn_RetryOnce(j, ok) ==
    /\ runner[j].pc = "spawn"
    /\ IF ~ok
       THEN /\ runner' = [runner EXCEPT ![j] =
                  IF @.error = "spawn"
                  THEN Finish(@, 1, "none", "spawn")
                  ELSE [@ EXCEPT !.error = "spawn"]]
            /\ UNCHANGED <<proc, drain>>
       ELSE /\ proc' = [proc EXCEPT ![j].st = "running"]
            /\ IF runner[j].kind = "console"
               THEN /\ runner' = [runner EXCEPT ![j].pc = "stdin"]
                    /\ UNCHANGED drain
               ELSE /\ runner' = [runner EXCEPT ![j].pc = "wait"]
                    /\ drain' = [drain EXCEPT ![j].out = RunningReader,
                                              ![j].err = RunningReader]
    /\ UNCHANGED <<export_jobs, conn, history, finals>>
    /\ UNCHANGED cacheVars
    /\ UNCHANGED reqVars

\* cmd.spawn(): on success the export and import runners spawn the two reader
\* tasks at once; run_psql_query first writes the query to stdin.
RunnerSpawn(j, ok) ==
    /\ runner[j].pc = "spawn"
    /\ IF ~ok
       THEN /\ runner' = [runner EXCEPT ![j] = Finish(@, 1, "none", "spawn")]
            /\ UNCHANGED <<proc, drain>>
       ELSE /\ proc' = [proc EXCEPT ![j].st = "running"]
            /\ IF runner[j].kind = "console"
               THEN /\ runner' = [runner EXCEPT ![j].pc = "stdin"]
                    /\ UNCHANGED drain
               ELSE /\ runner' = [runner EXCEPT ![j].pc = "wait"]
                    /\ drain' = [drain EXCEPT ![j].out = RunningReader,
                                              ![j].err = RunningReader]
    /\ UNCHANGED <<export_jobs, conn, history, finals>>
    /\ UNCHANGED cacheVars
    /\ UNCHANGED reqVars

\* run_psql_query: stdin.write_all(query); on failure finalize and return, else
\* close stdin and spawn the two reader tasks.
RunnerStdin(j, ok) ==
    /\ runner[j].pc = "stdin"
    /\ IF ~ok
       THEN /\ runner' = [runner EXCEPT ![j] = Finish(@, 1, "none", "stdin")]
            /\ UNCHANGED drain
       ELSE /\ runner' = [runner EXCEPT ![j].pc = "wait"]
            /\ drain' = [drain EXCEPT ![j].out = RunningReader,
                                      ![j].err = RunningReader]
    /\ UNCHANGED <<export_jobs, proc, conn, history, finals>>
    /\ UNCHANGED cacheVars
    /\ UNCHANGED reqVars

\* Mutant of AllNonCritical: the negation of is_empty() is missing.
AllNonCritical_EmptyOnly(error_lines) ==
    /\ error_lines = <<>>
    /\ \A i \in 1..Len(error_lines) : error_lines[i] = "noncrit"

\* Mutant of AllNonCritical: the is_empty() test is left out, and all() holds
\* of an empty list.
AllNonCritical_VacuousAll(error_lines) ==
    \A i \in 1..Len(error_lines) : error_lines[i] = "noncrit"

\* error_lines.iter().all(is_non_critical_error) over the collected classes.
AllNonCritical(error_lines) ==
    /\ error_lines # <<>>
    /\ \A i \in 1..Len(error_lines) : error_lines[i] = "noncrit"

\* Mutant of RunnerWaitExit: an export or console job that logged an
\* error-tagged stderr line fails whatever the exit code.
RunnerWaitExit_StderrDecides(j) ==
    /\ runner[j].pc = "wait"
    /\ proc[j].st = "exited"
    /\ LET failed == \/ proc[j].code # 0
                     \/ \E i \in 1..Len(history[j]) : history[j][i][3] = "error"
       IN runner' = [runner EXCEPT ![j] =
             CASE @.kind = "export" ->
                    IF ~failed
                    THEN Finish(@, 4, "dump", "none")
                    ELSE Finish(@, 3, "none", "exit_code")
               [] @.kind = "import" -> [@ EXCEPT !.pc = "join"]
               [] @.kind = "console" ->
                    IF ~failed
                    THEN Finish(@, 2, "none", "none")
                    ELSE Finish(@, 2, "none", "exit_code")]
    /\ UNCHANGED <<export_jobs, proc, drain, conn, history, finals>>
    /\ UNCHANGED cacheVars
    /\ UNCHANGED reqVars

\* child.wait() returned Ok(status): the branch each runner takes on it.
RunnerWaitExit(j) ==
    /\ runner[j].pc = "wait"
    /\ proc[j].st = "exited"
    /\ runner' = [runner EXCEPT ![j] =
          CASE @.kind = "export" ->
                 IF proc[j].code = 0
                 THEN Finish(@, 4, "dump", "none")
                 ELSE Finish(@, 3, "none", "exit_code")
            [] @.kind = "import" -> [@ EXCEPT !.pc = "join"]
            [] @.kind = "console" ->
                 IF proc[j].code = 0
                 THEN Finish(@, 2, "none", "none")
                 ELSE Finish(@, 2, "none", "exit_code")]
    /\ UNCHANGED <<export_jobs, proc, drain, conn, history, finals>>
    /\ UNCHANGED cacheVars
    /\ UNCHANGED reqVars

\* child.wait() returned Err(e): the operating system reports an error instead
\* of the exit status of the finished child.
RunnerWaitErr(j) ==
    /\ runner[j].pc = "wait"
    /\ proc[j].st = "exited"
    /\ runner' = [runner EXCEPT ![j] =
          Finish(@, IF @.kind = "export" THEN 2 ELSE 1, "none", "wait")]
    /\ UNCHANGED <<export_jobs, proc, drain, conn, history, finals>>
    /\ UNCHANGED cacheVars
    /\ UNCHANGED reqVars

\* Mutant of RunnerTimeout: the timeout branch passes no error to complete_job.
RunnerTimeout_NoError(j) ==
    /\ runner[j].pc = "wait"
    /\ runner[j].kind = "console"
    /\ proc[j].st = "running"
    /\ runner' = [runner EXCEPT ![j] = Finish(@, 2, "none", "none")]
    /\ UNCHANGED <<export_jobs, proc, drain, conn, history, finals>>
    /\ UNCHANGED cacheVars
    /\ UNCHANGED reqVars

\* run_psql_query: tokio::time::timeout(60 s, child.wait()) elapsed while the
\* process was still running. The branch appends two lines and finalizes.
RunnerTimeout(j) ==
    /\ runner[j].pc = "wait"
    /\ runner[j].kind = "console"
    /\ proc[j].st = "running"
    /\ runner' = [runner EXCEPT ![j] = Finish(@, 2, "none", "timeout")]
    /\ UNCHANGED <<export_jobs, proc, drain, conn, history, finals>>
    /\ UNCHANGED cacheVars
    /\ UNCHANGED reqVars

\* run_import_job: stderr_handle.await, then the choice between success,
\* completion with warnings and failure.
RunnerJoin(j) ==
    /\ runner[j].pc = "join"
    /\ drain[j].err.st = "done"
    /\ runner' = [runner EXCEPT ![j] =
          IF proc[j].code = 0 \/ AllNonCritical(drain[j].error_lines)
          THEN Finish(@, 3, "none", "none")
          ELSE Finish(@, 3, "none", "exit_code")]
    /\ UNCHANGED <<export_jobs, proc, drain, conn, history, finals>>
    /\ UNCHANGED cacheVars
    /\ UNCHANGED reqVars

\* Mutant of AfterComplete: the `return` after the failed CREATE DATABASE is
\* missing, so the runner goes on to spawn pg_restore.
AfterComplete_NoReturn(r) == IF r.error = "create_db" THEN "spawn" ELSE "done"

\* Every complete_job call of a runner is followed by the end of the runner
\* (a `return`, or the end of the function body).
AfterComplete(r) == "done"

\* The runner's complete_job call.
RunnerComplete(j) ==
    /\ runner[j].pc = "complete"
    /\ export_jobs' = CompleteJob(export_jobs, j, runner[j].file, runner[j].error, now)
    /\ finals' = IF j \in DOMAIN export_jobs
                 THEN [finals EXCEPT ![j] = Append(@, export_jobs'[j].status)]
                 ELSE finals
    /\ runner' = [runner EXCEPT ![j].pc = AfterComplete(runner[j])]
    /\ UNCHANGED <<proc, drain, conn, history>>
    /\ UNCHANGED cacheVars
    /\ UNCHANGED reqVars

\* The classes of stderr line that each runner's reader tells apart.
ClassesOf(kind) ==
    CASE kind = "export" -> {"plain", "crit"}
      [] kind = "import" -> {"plain", "crit", "noncrit"}
      [] kind = "console" -> {"plain", "crit", "warn"}

\* The subprocess exits; what it wrote stays in its pipes until it is read.
ProcExit(j, code) ==
    /\ proc[j].st = "running"
    /\ proc' = [proc EXCEPT ![j].st = "exited", ![j].code = code]
    /\ UNCHANGED <<export_jobs, runner, drain, conn, history, finals>>
    /\ UNCHANGED cacheVars
    /\ UNCHANGED reqVars

\* Mutant of DrainOut: the limit test is `>` where the code has `>=`.
DrainOut_LimitOffByOne(j) ==
    /\ drain[j].out.st = "running"
    /\ drain[j].out.read < MaxOut
    /\ DoAppend(j, <<"out", drain[j].out.read + 1, "">>)
    /\ drain' = [drain EXCEPT ![j].out =
          IF runner[j].kind = "console" /\ @.read + 1 > MAX_OUTPUT_LINES
          THEN [st |-> "notice", read |-> @.read + 1, todo |-> 3]
          ELSE [@ EXCEPT !.read = @ + 1]]
    /\ UNCHANGED <<runner, proc, conn, finals>>
    /\ UNCHANGED cacheVars
    /\ UNCHANGED reqVars

\* The stdout reader task: next_line() yields a line the subprocess wrote (while
\* it runs, or before it exited and still in the pipe) and the line is appended;
\* the console reader stops at MAX_OUTPUT_LINES and announces the truncation.
DrainOut(j) ==
    /\ drain[j].out.st = "running"
    /\ drain[j].out.read < MaxOut
    /\ DoAppend(j, <<"out", drain[j].out.read + 1, "">>)
    /\ drain' = [drain EXCEPT ![j].out =
          IF runner[j].kind = "console" /\ @.read + 1 >= MAX_OUTPUT_LINES
          THEN [st |-> "notice", read |-> @.read + 1, todo |-> 3]
          ELSE [@ EXCEPT !.read = @ + 1]]
    /\ UNCHANGED <<runner, proc, conn, finals>>
    /\ UNCHANGED cacheVars
    /\ UNCHANGED reqVars

\* The console stdout reader: the three lines of the truncation notice.
DrainOutNotice(j) ==
    /\ drain[j].out.st = "notice"
    /\ DoAppend(j, <<"notice", 4 - drain[j].out.todo, "">>)
    /\ drain' = [drain EXCEPT ![j].out.todo = @ - 1,
                              ![j].out.st = IF drain[j].out.todo = 1 THEN "done" ELSE "notice"]
    /\ UNCHANGED <<runner, proc, conn, finals>>
    /\ UNCHANGED cacheVars
    /\ UNCHANGED reqVars

\* The stdout reader task: next_line() returns Ok(None), the pipe of the exited
\* subprocess being empty.
DrainOutEof(j) ==
    /\ drain[j].out.st = "running"
    /\ proc[j].st = "exited"
    /\ drain' = [drain EXCEPT ![j].out.st = "done"]
    /\ UNCHANGED <<export_jobs, runner, proc, conn, history, finals>>
    /\ UNCHANGED cacheVars
    /\ UNCHANGED reqVars

\* The prefix the stderr reader of each runner puts before a line.
ErrTag(kind, cls) ==
    CASE kind = "export" -> IF cls = "crit" THEN "error" ELSE ""
      [] kind = "import" -> IF cls = "crit" THEN "error"
                            ELSE IF cls = "noncrit" THEN "warn" ELSE ""
      [] kind = "console" -> IF cls = "crit" THEN "error"
                             ELSE IF cls = "warn" THEN "warn" ELSE ""

\* The stderr reader task: next_line() yields a line of class cls and the tagged
\* line is appended; the import reader collects the error lines, the console
\* reader stops at MAX_OUTPUT_LINES.
DrainErr(j, cls) ==
    /\ drain[j].err.st = "running"
    /\ drain[j].err.read < MaxErr
    /\ cls \in ClassesOf(runner[j].kind)
    /\ LET kind == runner[j].kind
       IN /\ DoAppend(j, <<"err", drain[j].err.read + 1, ErrTag(runner[j].kind, cls)>>)
          /\ drain' = [drain EXCEPT
                ![j].err.read = @ + 1,
                ![j].err.st = IF runner[j].kind = "console"
                                 /\ drain[j].err.read + 1 >= MAX_OUTPUT_LINES
                              THEN "done" ELSE "running",
                ![j].error_lines = IF runner[j].kind = "import" /\ cls \in {"crit", "noncrit"}
                                   THEN Append(@, cls) ELSE @]
    /\ UNCHANGED <<runner, proc, conn, finals>>
    /\ UNCHANGED cacheVars
    /\ UNCHANGED reqVars

\* The stderr reader task: next_line() returns Ok(None), the pipe of the exited
\* subprocess being empty.
DrainErrEof(j) ==
    /\ drain[j].err.st = "running"
    /\ proc[j].st = "exited"
    /\ drain' = [drain EXCEPT ![j].err.st = "done"]
    /\ UNCHANGED <<export_jobs, runner, proc, conn, history, finals>>
    /\ UNCHANGED cacheVars
    /\ UNCHANGED reqVars

\* stream_logs / stream_console_logs are called: stream::unfold(0usize, ...).
\* A stream opened later is, until its first pass, in the state of one opened
\* before the job's first line that has not polled yet (cursor 0, nothing
\* delivered), so the streams here are opened on an empty log and each one is
\* connected for the whole job; an unknown job id has an empty history too.
OpenStream(s, j) ==
    /\ conn[s].st = "closed"
    /\ history[j] = <<>>
    /\ conn' = [conn EXCEPT ![s] = [NoConn EXCEPT !.st = "open", !.job = j]]
    /\ UNCHANGED <<export_jobs, runner, proc, drain, history, finals>>
    /\ UNCHANGED cacheVars
    /\ UNCHANGED reqVars

\* job.logs.iter().skip(last_index).cloned().collect()
SkipLines(logs, last_index) == SubSeq(logs, last_index + 1, Len(logs))

\* Mutant of TickOutcome: the end of the job is tested before the new lines.
TickOutcome_DoneFirst(logs, is_done, last_index, new_index) ==
    IF is_done THEN "end"
    ELSE IF logs # <<>> THEN "data"
    ELSE IF last_index % KEEPALIVE_EVERY = 0 THEN "keepalive"
    ELSE "silent"

\* What one pass of the poll loop does with the lines it read: return a data
\* event, return a keepalive, end the stream, or sleep again.
TickOutcome(logs, is_done, last_index, new_index) ==
    IF logs # <<>> THEN "data"
    ELSE IF ~is_done /\ last_index % KEEPALIVE_EVERY = 0 THEN "keepalive"
    ELSE IF is_done /\ last_index >= new_index THEN "end"
    ELSE "silent"

\* Mutant of NewIndex: the cursor is not advanced past the lines just read.
NewIndex_NotAdvanced(last_index, logs) == last_index

\* let new_index = last_index + logs.len();
NewIndex(last_index, logs) == last_index + Len(logs)

\* One pass of the poll loop of a log stream: the sleep, the read of the job
\* under export_jobs.read(), and the event it yields (if any).
StreamTick(s) ==
    /\ conn[s].st = "open"
    /\ LET j == conn[s].job
           last_index == conn[s].last_index
       IN IF j \notin DOMAIN export_jobs
          THEN conn' = [conn EXCEPT ![s].st = "ended", ![s].ended_by = "notfound"]
          ELSE LET logs == SkipLines(export_jobs[j].logs, last_index)
                   new_index == NewIndex(last_index, logs)
                   is_done == export_jobs[j].status \in Terminal
                   outcome == TickOutcome(logs, is_done, last_index, new_index)
               IN conn' = [conn EXCEPT
                     ![s].st = IF outcome = "end" THEN "ended" ELSE "open",
                     ![s].ended_by = IF outcome = "end" THEN "done" ELSE @,
                     ![s].last_index = IF outcome \in {"data", "keepalive"}
                                       THEN new_index ELSE @,
                     ![s].delivered = IF outcome = "data" THEN @ \o logs ELSE @]
    /\ UNCHANGED <<export_jobs, runner, proc, drain, history, finals>>
    /\ UNCHANGED cacheVars
    /\ UNCHANGED reqVars

NextJobs ==
    \/ \E j \in JobIds : StartExport(j)
    \/ \E j \in JobIds, create_db \in BOOLEAN : StartImport(j, create_db)
    \/ \E j \in JobIds, read_only \in BOOLEAN : ExecuteQuery(j, read_only)
    \/ \E j \in JobIds, ok \in BOOLEAN : RunnerStart(j, ok)
    \/ \E j \in JobIds : RunnerAppend(j)
    \/ \E j \in JobIds, ok \in BOOLEAN : RunnerCreateDb(j, ok)
    \/ \E j \in JobIds, ok \in BOOLEAN : RunnerSpawn(j, ok)
    \/ \E j \in JobIds, ok \in BOOLEAN : RunnerStdin(j, ok)
    \/ \E j \in JobIds : RunnerWaitExit(j)
    \/ \E j \in JobIds : RunnerWaitErr(j)
    \/ \E j \in JobIds : RunnerTimeout(j)
    \/ \E j \in JobIds : RunnerJoin(j)
    \/ \E j \in JobIds : RunnerComplete(j)
    \/ \E j \in JobIds, code \in {0, 1} : ProcExit(j, code)
    \/ \E j \in JobIds : DrainOut(j)
    \/ \E j \in JobIds : DrainOutNotice(j)
    \/ \E j \in JobIds : DrainOutEof(j)
    \/ \E j \in JobIds, cls \in ErrClasses : DrainErr(j, cls)
    \/ \E j \in JobIds : DrainErrEof(j)

\* The log streamer beside an export job: stream_logs reads only the status and
\* the log buffer of the job, which every runner writes through the same two
\* functions; the tag the reader puts on a stderr line plays no part in it.
NextStream ==
    \/ \E j \in JobIds : StartExport(j)
    \/ \E j \in JobIds, ok \in BOOLEAN : RunnerStart(j, ok)
    \/ \E j \in JobIds : RunnerAppend(j)
    \/ \E j \in JobIds, ok \in BOOLEAN : RunnerSpawn(j, ok)
    \/ \E j \in JobIds : RunnerWaitExit(j)
    \/ \E j \in JobIds : RunnerWaitErr(j)
    \/ \E j \in JobIds : RunnerComplete(j)
    \/ \E j \in JobIds, code \in {0, 1} : ProcExit(j, code)
    \/ \E j \in JobIds : DrainOut(j)
    \/ \E j \in JobIds : DrainOutEof(j)
    \/ \E j \in JobIds : DrainErr(j, "plain")
    \/ \E j \in JobIds : DrainErrEof(j)
    \/ \E s \in Conns, j \in JobIds : OpenStream(s, j)
    \/ \E s \in Conns : StreamTick(s)

NextCache ==
    \/ Tick
    \/ \E p \in Callers, c \in Caches, k \in Keys : GetCachedBegin(p, c, k)
    \/ \E p \in Callers : GetCachedLock(p)
    \/ \E c \in Caches, k \in Keys, i \in 1..2, r \in FetchResults : RefreshFetch(c, k, i, r)
    \/ \E c \in Caches, k \in Keys, i \in 1..2 : RefreshWriteBack(c, k, i)

SpecCache == Init /\ [][NextCache]_vars

\* One listing type and one endpoint: get_cached_schemas, get_cached_tables
\* and get_cached_indices are the same code over separate maps and locks, and
\* no step for one key reads or writes the entry or the tasks of another.
LiveKey == CHOOSE k \in Keys : \A m \in Keys : k <= m

NextCacheLive ==
    \/ Tick
    \/ \E p \in Callers : GetCachedBegin(p, "schemas", LiveKey)
    \/ \E p \in Callers : GetCachedLock(p)
    \/ \E i \in 1..2, r \in FetchResults : RefreshFetch("schemas", LiveKey, i, r)
    \/ \E i \in 1..2 : RefreshWriteBack("schemas", LiveKey, i)

\* The cache with its refresh tasks scheduled fairly: a spawned task runs, its
\* fetch returns (with rows or with an error), and its cache.write() is
\* granted.
SpecCacheLive ==
    /\ Init
    /\ [][NextCacheLive]_vars
    /\ WF_vars(\E i \in 1..2, r \in FetchResults : RefreshFetch("schemas", LiveKey, i, r))
    /\ WF_vars(\E i \in 1..2 : RefreshWriteBack("schemas", LiveKey, i))

SpecJobs == Init /\ [][NextJobs]_vars

SpecStream == Init /\ [][NextStream]_vars

\* The wall clock advancing beside a job.  The times on a job matter only
\* relative to its start, so the clock is left at rest until a job exists.
TickJobs == DOMAIN export_jobs # {} /\ Tick

\* The jobs with the wall clock advancing between their steps, so that the
\* times recorded on a job can be told apart.
SpecJobsTimed == Init /\ [][NextJobs \/ TickJobs]_vars

\* A step of job j's runner task. Each one is enabled by the task itself being
\* ready (a lock to take, a spawn, a wait that has returned, a timer that has
\* expired), never by what the subprocess has yet to do.
RunnerStep(j) ==
    \/ \E ok \in BOOLEAN : RunnerStart(j, ok)
    \/ RunnerAppend(j)
    \/ \E ok \in BOOLEAN : RunnerCreateDb(j, ok)
    \/ \E ok \in BOOLEAN : RunnerSpawn(j, ok)
    \/ \E ok \in BOOLEAN : RunnerStdin(j, ok)
    \/ RunnerWaitExit(j)
    \/ RunnerWaitErr(j)
    \/ RunnerTimeout(j)
    \/ RunnerJoin(j)
    \/ RunnerComplete(j)

\* A step of job j's reader tasks that needs no further output of the
\* subprocess: the notice lines, and the end of file of an exited subprocess.
ReaderStep(j) == DrainOutNotice(j) \/ DrainOutEof(j) \/ DrainErrEof(j)

\* The tokio runtime runs every task that is ready; whether the subprocess
\* writes or exits is not the program's to decide and is under no fairness.
SpecJobsLive ==
    /\ Init
    /\ [][NextJobs]_vars
    /\ \A j \in JobIds : WF_vars(RunnerStep(j)) /\ WF_vars(ReaderStep(j))

(***************************************************************************)
(* complete_job as a function of the job map: a specification that calls   *)
(* it directly, with each shape of arguments its call sites pass, on a job  *)
(* in any status.  The runners are not scheduled here; the calls stand for  *)
(* any caller of complete_job.                                              *)
(***************************************************************************)
\* complete_job calls made per job.
MaxFinalize == 2

\* (file_path, error) as the call sites pass them: (Some(path), None),
\* (None, None) and (None, Some(message)).
FinalizeArgs ==
    {<<"dump", "none">>, <<"none", "none">>,
     <<"none", "exit_code">>, <<"none", "timeout">>}

\* One call complete_job(state, j, file_path, error).
FinalizeCall(j, file_path, error) ==
    /\ j \in DOMAIN export_jobs
    /\ Len(finals[j]) < MaxFinalize
    /\ export_jobs' = CompleteJob(export_jobs, j, file_path, error, now)
    /\ finals' = [finals EXCEPT ![j] = Append(@, export_jobs'[j].status)]
    /\ UNCHANGED <<runner, proc, drain, conn, history>>
    /\ UNCHANGED cacheVars
    /\ UNCHANGED reqVars

NextFinalize ==
    \/ Tick
    \/ \E j \in JobIds : StartExport(j)
    \/ \E j \in JobIds, a \in FinalizeArgs : FinalizeCall(j, a[1], a[2])

SpecFinalize == Init /\ [][NextFinalize]_vars

(***************************************************************************)
(* The registry functions and its readers called directly, for any of two  *)
(* job ids, registered or not, in any order.  The runners are not          *)
(* scheduled here; the calls stand for any caller.                         *)
(***************************************************************************)
FrameIds == {"j1", "j2"}
\* Lines appended per job.
MaxFrameLines == 1

\* start_export / start_import / execute_query: the insert of the new record.
FrameCreate(j) ==
    /\ j \notin DOMAIN export_jobs
    /\ export_jobs' = (j :> NewJob(j, now)) @@ export_jobs
    /\ UNCHANGED <<runner, proc, drain, conn, history, finals>>
    /\ UNCHANGED cacheVars
    /\ UNCHANGED reqVars

\* One call append_log(state, j, line).
FrameAppend(j, n) ==
    /\ j \in DOMAIN export_jobs => Len(export_jobs[j].logs) < MaxFrameLines
    /\ export_jobs' = AppendLog(export_jobs, j, <<"run", n, "">>)
    /\ UNCHANGED <<runner, proc, drain, conn, history, finals>>
    /\ UNCHANGED cacheVars
    /\ UNCHANGED reqVars

\* One call complete_job(state, j, file_path, error).
FrameComplete(j, file_path, error) ==
    /\ export_jobs' = CompleteJob(export_jobs, j, file_path, error, now)
    /\ UNCHANGED <<runner, proc, drain, conn, history, finals>>
    /\ UNCHANGED cacheVars
    /\ UNCHANGED reqVars

\* GET of the log stream of job j: stream::unfold(0usize, ...).
FrameOpenStream(s, j) ==
    /\ conn[s].st = "closed"
    /\ conn' = [conn EXCEPT ![s] = [NoConn EXCEPT !.st = "open", !.job = j]]
    /\ UNCHANGED <<export_jobs, runner, proc, drain, history, finals>>
    /\ UNCHANGED cacheVars
    /\ UNCHANGED reqVars

\* JobStatusResponse of get_job_status, or 404.
JobStatusResponse(jobs, j) ==
    IF j \in DOMAIN jobs
    THEN [code |-> "200", status |-> jobs[j].status, started_at |-> jobs[j].started_at,
          completed_at |-> jobs[j].completed_at, file_path |-> jobs[j].file_path,
          error |-> jobs[j].error]
    ELSE [code |-> "404"]

\* get_job_status: the read guard is taken, the response is built from the
\* record and the guard is dropped with the return, with no await in between.
GetJobStatus(h, j) ==
    /\ handler[h].pc = "idle"
    /\ handler' = [handler EXCEPT ![h] =
          [NoHandler EXCEPT !.op = "get_job_status", !.job = j,
                            !.resp = JobStatusResponse(export_jobs, j)]]
    /\ UNCHANGED <<active_override, filter>>
    /\ UNCHANGED jobVars
    /\ UNCHANGED cacheVars

NextFrame ==
    \/ \E j \in FrameIds : FrameCreate(j)
    \/ \E j \in FrameIds, n \in 1..MaxFrameLines : FrameAppend(j, n)
    \/ \E j \in FrameIds, a \in FinalizeArgs : FrameComplete(j, a[1], a[2])
    \/ \E s \in Conns, j \in FrameIds : FrameOpenStream(s, j)
    \/ \E s \in Conns : StreamTick(s)
    \/ \E h \in Handlers, j \in FrameIds : GetJobStatus(h, j)

SpecFrame == Init /\ [][NextFrame]_vars

(***************************************************************************)
(* The lock of the job registry.  The writers (the insert of a job,         *)
(* append_log, complete_job) and the poll pass of a log stream take and     *)
(* release the lock within one step; a handler that awaits while it holds   *)
(* its read guard keeps it over several steps, and export_jobs.write()      *)
(* waits for as long as a read guard is held.                               *)
(***************************************************************************)
\* The awaits of the handlers that are I/O: tokio::fs::read of the dump file,
\* tokio::fs::try_exists and tokio::fs::read of the log file.
IoWaits == {"read_file", "log_exists", "read_log"}

\* export_jobs.write().await returns.
WriteGranted == \A h \in Handlers : ~handler[h].guard

\* download_export up to its first await: the read guard is taken, the job and
\* its file_path are looked up (`?` returns 404 and drops the guard), and
\* tokio::fs::read is awaited with `jobs` still in scope.
DownloadExportBegin(h, j) ==
    /\ handler[h].pc = "idle"
    /\ handler' = [handler EXCEPT ![h] =
          IF j \notin DOMAIN export_jobs \/ export_jobs[j].file_path = "none"
          THEN [NoHandler EXCEPT !.op = "download_export", !.job = j,
                                 !.resp = [code |-> "404"]]
          ELSE [NoHandler EXCEPT !.op = "download_export", !.job = j,
                                 !.pc = "read_file", !.guard = TRUE]]
    /\ UNCHANGED <<active_override, filter>>
    /\ UNCHANGED jobVars
    /\ UNCHANGED cacheVars

\* download_export: tokio::fs::read returns; the function returns the file or
\* a 500, and `jobs` goes out of scope.
DownloadExportRead(h, ok) ==
    /\ handler[h].pc = "read_file"
    /\ handler' = [handler EXCEPT ![h] =
          [@ EXCEPT !.pc = "idle", !.guard = FALSE,
                    !.resp = [code |-> IF ok THEN "200" ELSE "500"]]]
    /\ UNCHANGED <<active_override, filter>>
    /\ UNCHANGED jobVars
    /\ UNCHANGED cacheVars

\* download_log up to its first await: the read guard is taken, the job is
\* looked up, and drop(jobs) comes before tokio::fs::try_exists.
DownloadLogBegin(h, j) ==
    /\ handler[h].pc = "idle"
    /\ handler' = [handler EXCEPT ![h] =
          IF j \notin DOMAIN export_jobs
          THEN [NoHandler EXCEPT !.op = "download_log", !.job = j,
                                 !.resp = [code |-> "404"]]
          ELSE [NoHandler EXCEPT !.op = "download_log", !.job = j,
                                 !.pc = "log_exists"]]
    /\ UNCHANGED <<active_override, filter>>
    /\ UNCHANGED jobVars
    /\ UNCHANGED cacheVars

\* download_log: try_exists returns (404 when the file is missing), then
\* tokio::fs::read returns the file or a 500.
DownloadLogStep(h, ok) ==
    /\ handler[h].pc \in {"log_exists", "read_log"}
    /\ handler' = [handler EXCEPT ![h] =
          IF handler[h].pc = "log_exists" /\ ok
          THEN [@ EXCEPT !.pc = "read_log"]
          ELSE [@ EXCEPT !.pc = "idle",
                         !.resp = [code |-> IF handler[h].pc = "log_exists" THEN "404"
                                            ELSE IF ok THEN "200" ELSE "500"]]]
    /\ UNCHANGED <<active_override, filter>>
    /\ UNCHANGED jobVars
    /\ UNCHANGED cacheVars

NextLock ==
    \/ \E j \in JobIds : WriteGranted /\ StartExport(j)
    \/ \E j \in JobIds, ok \in BOOLEAN : RunnerStart(j, ok)
    \/ \E j \in JobIds : WriteGranted /\ RunnerAppend(j)
    \/ \E j \in JobIds, ok \in BOOLEAN : RunnerSpawn(j, ok)
    \/ \E j \in JobIds : RunnerWaitExit(j)
    \/ \E j \in JobIds : RunnerWaitErr(j)
    \/ \E j \in JobIds : WriteGranted /\ RunnerComplete(j)
    \/ \E j \in JobIds, code \in {0, 1} : ProcExit(j, code)
    \/ \E j \in JobIds : WriteGranted /\ DrainOut(j)
    \/ \E j \in JobIds : DrainOutEof(j)
    \/ \E j \in JobIds : WriteGranted /\ DrainErr(j, "plain")
    \/ \E j \in JobIds : DrainErrEof(j)
    \/ \E h \in Handlers, j \in JobIds : GetJobStatus(h, j)
    \/ \E h \in Handlers, j \in JobIds : DownloadExportBegin(h, j)
    \/ \E h \in Handlers, ok \in BOOLEAN : DownloadExportRead(h, ok)
    \/ \E h \in Handlers, j \in JobIds : DownloadLogBegin(h, j)
    \/ \E h \in Handlers, ok \in BOOLEAN : DownloadLogStep(h, ok)

SpecLock == Init /\ [][NextLock]_vars

(***************************************************************************)
(* utils/filter.rs: parse_pattern_expression, matches_pattern and          *)
(* filter_names, as functions of strings.                                  *)
(***************************************************************************)
\* char::is_whitespace, for the characters used here.
Whitespace == {" ", "\t", "\n"}

\* input.trim().is_empty()
TrimmedIsEmpty(s) == \A i \in 1..Len(s) : s[i] \in Whitespace

\* str::replace(',', " , ")
RECURSIVE ReplaceComma(_)
ReplaceComma(s) ==
    IF s = <<>> THEN <<>>
    ELSE (IF Head(s) = "," THEN <<" ", ",", " ">> ELSE <<Head(s)>>) \o ReplaceComma(Tail(s))

\* str::split_whitespace: the maximal runs of non-whitespace characters, in
\* order; cur is the run being read and acc the runs already closed.
RECURSIVE SplitFrom(_, _, _)
SplitFrom(s, cur, acc) ==
    IF s = <<>>
    THEN IF cur = <<>> THEN acc ELSE Append(acc, cur)
    ELSE IF Head(s) \in Whitespace
         THEN SplitFrom(Tail(s), <<>>, IF cur = <<>> THEN acc ELSE Append(acc, cur))
         ELSE SplitFrom(Tail(s), Append(cur, Head(s)), acc)

SplitWhitespace(s) == SplitFrom(s, <<>>, <<>>)

\* u8::to_ascii_lowercase, for the letters used here.
ToAsciiLowercase(ch) ==
    CASE ch = "A" -> "a" [] ch = "D" -> "d" [] ch = "N" -> "n"
      [] ch = "O" -> "o" [] ch = "R" -> "r" [] ch = "T" -> "t"
      [] OTHER -> ch

\* str::eq_ignore_ascii_case(token, keyword), keyword in lower case.
EqIgnoreAsciiCase(token, keyword) ==
    /\ Len(token) = Len(keyword)
    /\ \A i \in 1..Len(token) : ToAsciiLowercase(token[i]) = keyword[i]

KwOr == <<"o", "r">>
KwAnd == <<"a", "n", "d">>
KwNot == <<"n", "o", "t">>

\* Mutant of ParseToken: neg_next stays set after the token it negated.
ParseToken_NegSticks(st, token) ==
    IF token = <<",">> \/ EqIgnoreAsciiCase(token, KwOr) \/ EqIgnoreAsciiCase(token, KwAnd)
    THEN st
    ELSE IF EqIgnoreAsciiCase(token, KwNot) \/ token = <<"-">>
    THEN [st EXCEPT !.neg_next = TRUE]
    ELSE LET starts == Head(token) = "-"
             is_exclude == st.neg_next \/ starts
             value == IF starts THEN Tail(token) ELSE token
         IN IF value = <<>>
            THEN [st EXCEPT !.neg_next = FALSE]
            ELSE IF is_exclude
                 THEN [st EXCEPT !.excludes = Append(@, value)]
                 ELSE [st EXCEPT !.includes = Append(@, value)]

\* One pass of the loop body of parse_pattern_expression over a token.
ParseToken(st, token) ==
    IF token = <<",">> \/ EqIgnoreAsciiCase(token, KwOr) \/ EqIgnoreAsciiCase(token, KwAnd)
    THEN st
    ELSE IF EqIgnoreAsciiCase(token, KwNot) \/ token = <<"-">>
    THEN [st EXCEPT !.neg_next = TRUE]
    ELSE LET starts == Head(token) = "-"
             is_exclude == st.neg_next \/ starts
             value == IF starts THEN Tail(token) ELSE token
         IN IF value = <<>>
            THEN [st EXCEPT !.neg_next = FALSE]
            ELSE IF is_exclude
                 THEN [st EXCEPT !.excludes = Append(@, value), !.neg_next = FALSE]
                 ELSE [st EXCEPT !.includes = Append(@, value), !.neg_next = FALSE]

RECURSIVE ParseTokens(_, _)
ParseTokens(st, tokens) ==
    IF tokens = <<>> THEN st
    ELSE ParseTokens(ParseToken(st, Head(tokens)), Tail(tokens))

\* parse_pattern_expression(input) -> (includes, excludes)
parse_pattern_expression(input) ==
    IF TrimmedIsEmpty(input)
    THEN [includes |-> << <<"*">> >>, excludes |-> <<>>]
    ELSE LET st == ParseTokens([includes |-> <<>>, excludes |-> <<>>, neg_next |-> FALSE],
                               SplitWhitespace(ReplaceComma(input)))
         IN [includes |-> IF st.includes = <<>> THEN << <<"*">> >> ELSE st.includes,
             excludes |-> st.excludes]

\* The characters matches_pattern puts a backslash before.
RegexEscaped == {".", "+", "(", ")", "|", "^", "$", "{", "}", "[", "]", "\\", "?"}

\* The regex matches_pattern builds between '^' and '$', as a sequence of
\* items: ".*" for '*', the escaped character, or the character itself (none
\* of the characters left unescaped is a regex metacharacter).
RegexOf(pattern) ==
    [i \in 1..Len(pattern) |->
        IF pattern[i] = "*" THEN [kind |-> "dotstar", ch |-> "*"]
        ELSE IF pattern[i] \in RegexEscaped THEN [kind |-> "escaped", ch |-> pattern[i]]
        ELSE [kind |-> "char", ch |-> pattern[i]]]

\* What '.' matches in the regex crate without the `s` flag: any character
\* but the line feed.
DotMatches(ch) == ch # "\n"

\* Regex::is_match of the anchored regex: items i.. against name from k on.
RECURSIVE IsMatchFrom(_, _, _, _)
IsMatchFrom(re, i, name, k) ==
    IF i > Len(re) THEN k > Len(name)
    ELSE IF re[i].kind = "dotstar"
         THEN \/ IsMatchFrom(re, i + 1, name, k)
              \/ /\ k <= Len(name)
                 /\ DotMatches(name[k])
                 /\ IsMatchFrom(re, i, name, k + 1)
         ELSE /\ k <= Len(name)
              /\ name[k] = re[i].ch
              /\ IsMatchFrom(re, i + 1, name, k + 1)

\* matches_pattern(name, pattern)
matches_pattern(name, pattern) == IsMatchFrom(RegexOf(pattern), 1, name, 1)

\* The filter closure of filter_names.
Keeps(name, includes, excludes) ==
    /\ \E i \in 1..Len(includes) : matches_pattern(name, includes[i])
    /\ ~\E i \in 1..Len(excludes) : matches_pattern(name, excludes[i])

\* filter_names(names, expression)
filter_names(names, expression) ==
    LET parsed == parse_pattern_expression(expression)
        Test(name) == Keeps(name, parsed.includes, parsed.excludes)
    IN SelectSeq(names, Test)

\* Pieces an expression is put together from.
MaxPieces == 5
MaxFilterPieces == 3

RECURSIVE Concats(_, _)
Concats(pieces, n) ==
    IF n = 0 THEN {<<>>}
    ELSE LET shorter == Concats(pieces, n - 1)
         IN shorter \cup {e \o q : e \in shorter, q \in pieces}

\* Expressions for parse_pattern_expression: keywords in either case, the
\* separators, the minus, a name and a wildcard.
ParsePieces ==
    {<<"o", "r">>, <<"A", "N", "D">>, <<"N", "o", "T">>,
     <<"-">>, <<",">>, <<" ">>, <<"x">>, <<"*">>}

InitParse ==
    /\ InitCache /\ InitJobs
    /\ active_override = NoOverride
    /\ handler = [h \in Handlers |-> NoHandler]
    /\ \E e \in Concats(ParsePieces, MaxPieces) :
          filter = [NoFilter EXCEPT !.pc = "args", !.expr = e]

\* One call parse_pattern_expression(expr).
CallParse ==
    /\ filter.pc = "args"
    /\ LET parsed == parse_pattern_expression(filter.expr)
       IN filter' = [filter EXCEPT !.pc = "parsed",
                                   !.includes = parsed.includes,
                                   !.excludes = parsed.excludes]
    /\ UNCHANGED <<active_override, handler>>
    /\ UNCHANGED jobVars
    /\ UNCHANGED cacheVars

NextParse == CallParse

SpecParse == InitParse /\ [][NextParse]_vars

\* Expressions for filter_names: a letter, the wildcard, the minus, the comma,
\* a blank and a regex metacharacter.
FilterPieces == {<<"x">>, <<"*">>, <<"-">>, <<",">>, <<" ">>, <<".">>}

\* Names to filter: Postgres identifiers, which may hold any character.
Names == {<<"x">>, <<"x", "x">>, <<".">>, <<"x", "\n", "x">>}
MaxNames == 2

NameLists == UNION {[1..n -> Names] : n \in 0..MaxNames}

InitFilter ==
    /\ InitCache /\ InitJobs
    /\ active_override = NoOverride
    /\ handler = [h \in Handlers |-> NoHandler]
    /\ \E e \in Concats(FilterPieces, MaxFilterPieces), l \in NameLists :
          filter = [NoFilter EXCEPT !.pc = "args", !.expr = e, !.names = l]

\* One call filter_names(names, expr).
CallFilterNames ==
    /\ filter.pc = "args"
    /\ LET parsed == parse_pattern_expression(filter.expr)
       IN filter' = [filter EXCEPT !.pc = "filtered",
                                   !.includes = parsed.includes,
                                   !.excludes = parsed.excludes,
                                   !.result = filter_names(filter.names, filter.expr)]
    /\ UNCHANGED <<active_override, handler>>
    /\ UNCHANGED jobVars
    /\ UNCHANGED cacheVars

NextFilter == CallFilterNames

SpecFilter == InitFilter /\ [][NextFilter]_vars

(***************************************************************************)
(* The database switch beside one cache: activate_database and             *)
(* reset_database_override change AppState.active_override, which          *)
(* get_active_endpoint reads for every request.                            *)
(***************************************************************************)
\* activate_database: `*guard = Some(next)`, next being the endpoint with the
\* database of its URL replaced.
ActivateDatabase(k, url) ==
    /\ active_override' = [some |-> TRUE, id |-> k, url |-> url]
    /\ active_override' # active_override
    /\ UNCHANGED <<handler, filter>>
    /\ UNCHANGED cacheVars
    /\ UNCHANGED jobVars

\* reset_database_override: `*guard = None`.
ResetDatabaseOverride ==
    /\ active_override.some
    /\ active_override' = NoOverride
    /\ UNCHANGED <<handler, filter>>
    /\ UNCHANGED cacheVars
    /\ UNCHANGED jobVars

NextSwitch ==
    \/ Tick
    \/ \E p \in Callers : GetCachedBegin(p, "schemas", LiveKey)
    \/ \E p \in Callers : GetCachedLock(p)
    \/ \E i \in 1..2, r \in FetchResults : RefreshFetch("schemas", LiveKey, i, r)
    \/ \E i \in 1..2 : RefreshWriteBack("schemas", LiveKey, i)
    \/ ActivateDatabase(LiveKey, "db2")
    \/ ResetDatabaseOverride

SpecSwitch == Init /\ [][NextSwitch]_vars

Next == NextCache \/ NextJobs \/ NextStream

Spec == Init /\ [][Next]_vars

(***************************************************************************)
(* Claims about the caches, checked under SpecCache.                       *)
(***************************************************************************)

\* C1: for every cache and key, under any interleaving of get_cached_* callers
\* and refresh-task completions, at most one refresh task (spawned and not yet
\* finished writing back) is in flight.
C1_SingleFlight ==
    \A c \in Caches, k \in Keys : Len(tasks[c][k]) <= 1

\* A second refresh of a key is in flight and a concurrent caller, finding the
\* entry stale and fetching, has returned without scheduling another one.
C1_Witness ==
    /\ ret.has /\ ret.hit /\ ~ret.scheduled /\ ret.fetching
    /\ fetches[ret.cache][ret.key] = 2
    /\ Len(tasks[ret.cache][ret.key]) = 1
    /\ IsStale(now, cache[ret.cache][ret.key])

\* C9: while the first fetch for a key has not completed, the key is either
\* absent with no fetch, or present through exactly one insertion with exactly
\* one fetch spawned and still in flight; every call returning in that period
\* returns empty data with is_refreshing = TRUE, and only the inserting call
\* scheduled a fetch.
C9_Stampede ==
    /\ \A c \in Caches, k \in Keys :
          ~refreshed[c][k] =>
              IF k \in DOMAIN cache[c]
              THEN /\ fetches[c][k] = 1
                   /\ Len(tasks[c][k]) = 1
                   /\ cache[c][k].data = <<>>
                   /\ cache[c][k].fetching
              ELSE fetches[c][k] = 0 /\ tasks[c][k] = <<>>
    /\ (ret.has /\ ret.first_pending) =>
          /\ ret.data = <<>>
          /\ ret.fetching
          /\ ret.scheduled <=> ~ret.hit

\* A caller that did not insert the entry returned (empty, TRUE) while the one
\* fetch was still running, and another caller is still inside get_cached_*
\* for the same key.
C9_Witness ==
    /\ ret.has /\ ret.hit /\ ret.first_pending /\ ~ret.scheduled
    /\ ret.data = <<>> /\ ret.fetching
    /\ Len(tasks[ret.cache][ret.key]) = 1
    /\ tasks[ret.cache][ret.key][1].st = "fetching"
    /\ \E q \in Callers \ {ret.caller} :
          call[q].pc = "lock" /\ call[q].cache = ret.cache /\ call[q].key = ret.key

\* C10: a get_cached_* call made at a time between the entry's fetched_at and
\* fetched_at + CACHE_TTL returns exactly the data stored when fetched_at was set.
C10_StaleRead ==
    (ret.has /\ ret.within_ttl) => ret.data = ret.snapshot

\* A call made after fetched_at and within the TTL returned the fetched rows
\* while the clock had moved on.
C10_Witness ==
    /\ ret.has /\ ret.hit /\ ret.within_ttl /\ ret.aged
    /\ ret.data = <<"r1">>
    /\ ~ret.fetching

\* C11: the step in which a refresh task writes back resets fetching; after a
\* failed fetch it leaves data and fetched_at as they were, after a successful
\* one it replaces data by the fetched rows and sets fetched_at to the time of
\* that step.
C11_WriteBack ==
    [][\A c \in Caches, k \in Keys :
          (k \in DOMAIN cache[c] /\ Len(tasks'[c][k]) < Len(tasks[c][k])) =>
             LET result == tasks[c][k][1].result
                 old == cache[c][k]
                 new == cache'[c][k]
             IN /\ Len(tasks[c][k]) = 1
                /\ ~new.fetching
                /\ IF result.ok
                   THEN new.data = result.rows /\ new.fetched_at = now
                   ELSE new.data = old.data /\ new.fetched_at = old.fetched_at]_vars

\* A second refresh of an entry that held rows has failed and written back: the
\* rows and the fetched_at of the first fetch are still there.
C11_Witness ==
    \E c \in Caches, k \in Keys :
        /\ k \in DOMAIN cache[c]
        /\ fetches[c][k] = 2
        /\ tasks[c][k] = <<>>
        /\ cache[c][k].data = <<"r1">>
        /\ cache[c][k].fetched_at = 0
        /\ ~cache[c][k].fetching
        /\ now > CACHE_TTL

\* C25: a get_cached_* call for a key that has an entry schedules a refresh
\* exactly if the entry is stale at the call's time and not being fetched; it
\* returns the entry's data and the fetching flag as the call leaves it, and
\* leaves the entry's data and fetched_at alone.
C25_HitBranch ==
    [][\A p \in Callers :
          (/\ call[p].pc = "lock" /\ call'[p].pc = "idle"
           /\ call[p].key \in DOMAIN cache[call[p].cache]) =>
             LET c == call[p].cache
                 k == call[p].key
                 old == cache[c][k]
                 new == cache'[c][k]
                 due == call[p].now - old.fetched_at > CACHE_TTL /\ ~old.fetching
             IN /\ Len(tasks'[c][k]) = Len(tasks[c][k]) + (IF due THEN 1 ELSE 0)
                /\ new.fetching = (old.fetching \/ due)
                /\ new.data = old.data
                /\ new.fetched_at = old.fetched_at
                /\ ret'.data = old.data
                /\ ret'.fetching = new.fetching]_vars

\* A call found a stale entry holding rows, scheduled its refresh and returned
\* the rows with the flag set.
C25_Witness ==
    /\ ret.has /\ ret.hit /\ ret.scheduled
    /\ ret.data = <<"r1">>
    /\ ret.fetching
    /\ cache[ret.cache][ret.key].data = <<"r1">>

\* C26: a get_cached_* call that returns is_refreshing = false returns data
\* that a successful fetch for that key wrote into the entry.
C26_NotRefreshingIsFetched ==
    (ret.has /\ ~ret.fetching) => ret.from_fetch

\* C28: an entry's fetching flag is set exactly while one refresh task for its
\* key has been spawned and has not yet written back, and, the fetch of every
\* refresh task returning, an entry whose flag is set has it reset later.
C28_FetchingFlag ==
    /\ [](\A c \in Caches, k \in Keys :
            IF k \in DOMAIN cache[c]
            THEN cache[c][k].fetching <=> Len(tasks[c][k]) = 1
            ELSE tasks[c][k] = <<>>)
    /\ (LiveKey \in DOMAIN cache["schemas"] /\ cache["schemas"][LiveKey].fetching)
          ~> (LiveKey \in DOMAIN cache["schemas"] /\ ~cache["schemas"][LiveKey].fetching)

\* Two refreshes of one entry have come and gone, the second after a failed
\* fetch: the flag is down and no task is left.
C28_Witness ==
    \E c \in Caches : \E k \in DOMAIN cache[c] :
        /\ fetches[c][k] = 2
        /\ tasks[c][k] = <<>>
        /\ ~cache[c][k].fetching
        /\ ~fetched_ok[c][k]

\* C27: the rows a get_cached_* call returns are rows of the database that the
\* active connection pointed to when the call was made.
C27_RowsOfActiveDatabase ==
    (ret.has /\ ret.data # <<>>) => ret.data \in RowsAt(ret.url)

(***************************************************************************)
(* Claims about the job runners, checked under SpecJobs.                   *)
(***************************************************************************)

\* C2: whatever the interleaving of the append_log calls of the runner and the
\* two readers, a job's log never holds more than MAX_LOG_LINES lines, and it
\* is always the most recent lines appended, in order: an append to a full
\* buffer has removed the oldest line and nothing else.
C2_LogBounded ==
    \A j \in DOMAIN export_jobs :
        LET h == history[j]
            logs == export_jobs[j].logs
            n == IF Len(h) < MAX_LOG_LINES THEN Len(h) ELSE MAX_LOG_LINES
        IN /\ Len(logs) <= MAX_LOG_LINES
           /\ logs = SubSeq(h, Len(h) - n + 1, Len(h))

\* A full buffer that has evicted lines and holds lines of the runner and of
\* both readers.
C2_Witness ==
    \E j \in DOMAIN export_jobs :
        LET logs == export_jobs[j].logs
        IN /\ Len(history[j]) > MAX_LOG_LINES
           /\ Len(logs) = MAX_LOG_LINES
           /\ \A src \in {"run", "out", "err"} :
                 \E i \in 1..Len(logs) : logs[i][1] = src

\* C3: complete_job runs at most once for a job; a job is Running until then and
\* keeps the status that call gave it ever after.
C3_StatusOnce ==
    \A j \in JobIds :
        /\ Len(finals[j]) <= 1
        /\ j \in DOMAIN export_jobs =>
              IF finals[j] = <<>>
              THEN export_jobs[j].status = "Running"
              ELSE /\ export_jobs[j].status = finals[j][1]
                   /\ export_jobs[j].status \in Terminal

\* An import whose CREATE DATABASE failed: finalized as Failed, runner returned.
C3_Witness ==
    \E j \in DOMAIN export_jobs :
        /\ runner[j].kind = "import"
        /\ runner[j].error = "create_db"
        /\ runner[j].pc = "done"
        /\ finals[j] = <<"Failed">>
        /\ export_jobs[j].status = "Failed"

\* C7: once a job is Completed or Failed, no step appends a line to its log.
C7_NoAppendAfterTerminal ==
    [][\A j \in DOMAIN export_jobs :
          export_jobs[j].status \in Terminal =>
              /\ j \in DOMAIN export_jobs'
              /\ export_jobs'[j].logs = export_jobs[j].logs]_vars

\* C12: a runner that has returned while the subprocess it spawned and fed is
\* still running took the timeout branch: it has appended the timeout notice
\* (its last line) and finalized the job as Failed with the timeout as error;
\* while the job has not appended more than MAX_LOG_LINES lines, every line
\* captured so far, those before the deadline included, is in the buffer.
C12_Timeout ==
    \A j \in DOMAIN export_jobs :
        (runner[j].pc = "done" /\ proc[j].st = "running"
            /\ drain[j].out.st # "none") =>
           /\ runner[j].kind = "console"
           /\ export_jobs[j].status = "Failed"
           /\ export_jobs[j].error = "timeout"
           /\ \E i \in 1..Len(history[j]) : history[j][i] = <<"run", runner[j].n, "">>
           /\ Len(history[j]) <= MAX_LOG_LINES => export_jobs[j].logs = history[j]

\* A console job finalized by the timeout branch after a stdout line and a
\* stderr line were captured, nothing evicted.
C12_Witness ==
    \E j \in DOMAIN export_jobs :
        /\ runner[j].kind = "console"
        /\ runner[j].error = "timeout"
        /\ runner[j].pc = "done"
        /\ proc[j].st = "running"
        /\ export_jobs[j].status = "Failed"
        /\ Len(history[j]) <= MAX_LOG_LINES
        /\ \E a, b, c \in 1..Len(export_jobs[j].logs) :
              /\ a < c /\ b < c
              /\ export_jobs[j].logs[a][1] = "out"
              /\ export_jobs[j].logs[b][1] = "err"
              /\ export_jobs[j].logs[c] = <<"run", runner[j].n, "">>

\* C13: no job is Failed with the timeout as its error while its subprocess is
\* still running.
C13_KilledOnTimeout ==
    \A j \in DOMAIN export_jobs :
        (export_jobs[j].status = "Failed" /\ export_jobs[j].error = "timeout") =>
           proc[j].st # "running"

\* C14: every job that has been created eventually is Completed or Failed.
C14_EveryJobEnds ==
    \A j \in JobIds :
        (j \in DOMAIN export_jobs) ~>
           (j \in DOMAIN export_jobs /\ export_jobs[j].status \in Terminal)

C17_ExitCodeDecides ==
    \A j \in DOMAIN export_jobs :
        (/\ runner[j].kind \in {"export", "console"}
         /\ runner[j].pc = "done"
         /\ proc[j].st = "exited"
         /\ runner[j].error \notin {"wait", "timeout", "stdin"}) =>
           IF proc[j].code = 0
           THEN /\ export_jobs[j].status = "Completed"
                /\ export_jobs[j].error = "none"
                /\ export_jobs[j].file_path =
                      IF runner[j].kind = "export" THEN "dump" ELSE "none"
           ELSE /\ export_jobs[j].status = "Failed"
                /\ export_jobs[j].error = "exit_code"
                /\ export_jobs[j].file_path = "none"

\* An export that exited with code zero after its stderr reader had logged an
\* error-tagged line: Completed, with the dump file.
C17_Witness ==
    \E j \in DOMAIN export_jobs :
        /\ runner[j].kind = "export"
        /\ runner[j].pc = "done"
        /\ proc[j].st = "exited" /\ proc[j].code = 0
        /\ \E i \in 1..Len(history[j]) :
              /\ history[j][i][1] = "err" /\ history[j][i][3] = "error"
              /\ \E k \in (i + 1)..Len(history[j]) : history[j][k][1] = "run"
        /\ export_jobs[j].status = "Completed"
        /\ export_jobs[j].file_path = "dump"

\* C18: once the spawn of the external program or the write of the query to
\* its stdin has failed, the runner does nothing but log the failure and
\* finalize: no spawn follows a failed spawn, no reader is started, the one
\* finalization of the job is Failed with that failure as error, and the
\* job's terminal fields never change afterwards.
C18_SpawnOrStdinFailure ==
    /\ [](\A j \in DOMAIN export_jobs :
            runner[j].error \in {"spawn", "stdin"} =>
              /\ runner[j].pc \in {"append", "complete", "done"}
              /\ runner[j].pc = "append" => runner[j].after = "complete"
              /\ runner[j].error = "spawn" => proc[j].st = "none"
              /\ drain[j].out.st = "none" /\ drain[j].err.st = "none"
              /\ IF runner[j].pc = "done"
                 THEN /\ export_jobs[j].status = "Failed"
                      /\ export_jobs[j].error = runner[j].error
                      /\ export_jobs[j].file_path = "none"
                      /\ finals[j] = <<"Failed">>
                 ELSE /\ export_jobs[j].status = "Running"
                      /\ finals[j] = <<>>)
    /\ [][\A j \in DOMAIN export_jobs :
            export_jobs[j].error \in {"spawn", "stdin"} =>
              /\ j \in DOMAIN export_jobs'
              /\ export_jobs'[j].status = export_jobs[j].status
              /\ export_jobs'[j].error = export_jobs[j].error
              /\ export_jobs'[j].completed_at = export_jobs[j].completed_at
              /\ export_jobs'[j].file_path = export_jobs[j].file_path]_vars

\* The failure has happened and been finalized: a job Failed by a spawn that
\* never produced a process, or by a stdin write to a spawned process.
C18_Witness ==
    \E j \in DOMAIN export_jobs :
        /\ runner[j].pc = "done"
        /\ export_jobs[j].status = "Failed"
        /\ \/ export_jobs[j].error = "spawn" /\ proc[j].st = "none"
           \/ export_jobs[j].error = "stdin" /\ proc[j].st # "none"
        /\ finals[j] = <<"Failed">>

\* C22: a Running job has completed_at, file_path and error unset; a job with
\* file_path set is Completed; a job with error set is Failed; a Completed or
\* Failed job has completed_at set, and no step changes it afterwards.
C22_TerminalFieldsAgree ==
    /\ [](\A j \in DOMAIN export_jobs :
            LET job == export_jobs[j]
            IN /\ job.status = "Running" =>
                    job.completed_at = -1 /\ job.file_path = "none" /\ job.error = "none"
               /\ job.file_path # "none" => job.status = "Completed"
               /\ job.error # "none" => job.status = "Failed"
               /\ job.status \in Terminal =>
                    job.completed_at >= job.started_at /\ job.completed_at <= now)
    /\ [][\A j \in DOMAIN export_jobs :
            export_jobs[j].status \in Terminal =>
              export_jobs'[j].completed_at = export_jobs[j].completed_at]_vars

\* A job started at one time, finalized at a later one, and looked at later
\* still: its completion time is the time of the finalization.
C22_Witness ==
    \E j \in DOMAIN export_jobs :
        /\ export_jobs[j].status = "Completed"
        /\ export_jobs[j].file_path = "dump"
        /\ export_jobs[j].started_at < export_jobs[j].completed_at
        /\ export_jobs[j].completed_at < now

\* C29: an import whose process exited non-zero with no error-classified
\* stderr line is Failed with the exit code as error, and an import whose
\* process exited non-zero is Completed only if it collected at least one
\* error-classified line and every one of them is non-critical.
C29_NoErrorLinesFails ==
    \A j \in DOMAIN export_jobs :
        (/\ runner[j].kind = "import"
         /\ runner[j].pc = "done"
         /\ proc[j].st = "exited" /\ proc[j].code # 0
         /\ runner[j].error # "wait") =>
           /\ drain[j].error_lines = <<>> =>
                 /\ export_jobs[j].status = "Failed"
                 /\ export_jobs[j].error = "exit_code"
           /\ export_jobs[j].status = "Completed" =>
                 /\ drain[j].error_lines # <<>>
                 /\ \A i \in 1..Len(drain[j].error_lines) :
                       drain[j].error_lines[i] = "noncrit"

\* An import that exited non-zero after writing a stderr line with no error
\* marker, finalized as Failed.
C29_Witness ==
    \E j \in DOMAIN export_jobs :
        /\ runner[j].kind = "import"
        /\ runner[j].pc = "done"
        /\ proc[j].st = "exited" /\ proc[j].code # 0
        /\ drain[j].error_lines = <<>>
        /\ \E i \in 1..Len(history[j]) :
              history[j][i][1] = "err" /\ history[j][i][3] = ""
        /\ export_jobs[j].status = "Failed"
        /\ export_jobs[j].error = "exit_code"

(***************************************************************************)
(* Claims about the log streams, checked under SpecStream.                 *)
(***************************************************************************)

\* C4: a pass of the poll loop ends the stream of a known job if and only if the
\* job is terminal and the cursor equals the buffer length at that pass; in that
\* state the pass does end the stream, and it delivers nothing.
C4_EndsExactly ==
    [][\A s \in Conns :
          LET j == conn[s].job
              caught_up == /\ export_jobs[j].status \in Terminal
                           /\ conn[s].last_index = Len(export_jobs[j].logs)
          IN (conn[s].st = "open" /\ j \in DOMAIN export_jobs) =>
                /\ caught_up =>
                      TickOutcome(SkipLines(export_jobs[j].logs, conn[s].last_index),
                                  TRUE, conn[s].last_index,
                                  NewIndex(conn[s].last_index,
                                           SkipLines(export_jobs[j].logs,
                                                     conn[s].last_index))) = "end"
                /\ conn'[s] # conn[s] =>
                      /\ conn'[s].st = "ended" <=> caught_up
                      /\ caught_up => conn'[s].delivered = conn[s].delivered]_vars

\* A stream that delivered lines and ended because the job was terminal and the
\* cursor had reached the buffer length.
C4_Witness ==
    \E s \in Conns :
        /\ conn[s].st = "ended"
        /\ conn[s].ended_by = "done"
        /\ conn[s].delivered # <<>>
        /\ conn[s].job \in DOMAIN export_jobs
        /\ conn[s].last_index = Len(export_jobs[conn[s].job].logs)
        /\ export_jobs[conn[s].job].status \in Terminal

\* Whether d[i..] can be matched, in order, to distinct positions of h[k..].
RECURSIVE MatchesInOrder(_, _, _, _)
MatchesInOrder(d, i, h, k) ==
    IF i > Len(d) THEN TRUE
    ELSE IF k > Len(h) THEN FALSE
    ELSE IF d[i] = h[k] THEN MatchesInOrder(d, i + 1, h, k + 1)
    ELSE MatchesInOrder(d, i, h, k + 1)

\* C5: the lines a connection has delivered are lines appended to its job, each
\* append delivered at most once, in the order of the appends: the delivered
\* sequence matches increasing positions of the history of appends.
C5_AtMostOnceInOrder ==
    \A s \in Conns :
        MatchesInOrder(conn[s].delivered, 1, history[conn[s].job], 1)

\* A connection that delivered in several passes, the last one after an
\* eviction: it holds the line that overflowed the buffer.
C5_Witness ==
    \E s \in Conns :
        LET d == conn[s].delivered
            h == history[conn[s].job]
        IN /\ Len(h) > MAX_LOG_LINES
           /\ Len(d) >= 2
           /\ d[Len(d)] = h[Len(h)]
           /\ d[1] = h[1]

\* C6: an open connection whose cursor has reached the buffer length, so that a
\* pass reads nothing, has delivered every line the buffer holds.
C6_CaughtUpHasAll ==
    \A s \in Conns :
        LET j == conn[s].job
        IN (conn[s].st = "open" /\ j \in DOMAIN export_jobs
               /\ conn[s].last_index = Len(export_jobs[j].logs)) =>
              \A i \in 1..Len(export_jobs[j].logs) :
                 \E k \in 1..Len(conn[s].delivered) :
                    conn[s].delivered[k] = export_jobs[j].logs[i]

\* C8: when the runner and both readers of a job have finished having appended
\* fewer than MAX_LOG_LINES lines, a stream of that job that ended because the
\* job was terminal has delivered every line the readers appended.
C8_DrainedLinesDelivered ==
    \A s \in Conns :
        LET j == conn[s].job
        IN (/\ conn[s].st = "ended"
            /\ conn[s].ended_by = "done"
            /\ runner[j].pc = "done"
            /\ drain[j].out.st \in {"none", "done"}
            /\ drain[j].err.st \in {"none", "done"}
            /\ Len(history[j]) < MAX_LOG_LINES) =>
              \A i \in 1..Len(history[j]) :
                 history[j][i][1] \in {"out", "err"} =>
                    \E k \in 1..Len(conn[s].delivered) :
                       conn[s].delivered[k] = history[j][i]

\* C19: while the job is Running and the stream has read every line of the
\* log, a pass of the poll loop yields an event.  A pass that yields nothing
\* changes neither the cursor nor the job, so until a new line arrives every
\* later pass finds the same state: the stream yields an event within every
\* window of KEEPALIVE_EVERY passes exactly if this one pass yields one.
C19_KeepaliveWhenIdle ==
    \A s \in Conns :
        (/\ conn[s].st = "open"
         /\ conn[s].job \in DOMAIN export_jobs
         /\ export_jobs[conn[s].job].status = "Running"
         /\ SkipLines(export_jobs[conn[s].job].logs, conn[s].last_index) = <<>>) =>
           TickOutcome(<<>>, FALSE, conn[s].last_index, conn[s].last_index) # "silent"

(***************************************************************************)
(* Claim about complete_job itself, checked under SpecFinalize.             *)
(***************************************************************************)
\* C20: a complete_job call on a job that is already Completed or Failed
\* leaves its status, completed_at, file_path and error as they were.
C20_FinalizeOnce ==
    [][\A j \in DOMAIN export_jobs :
          export_jobs[j].status \in Terminal =>
            /\ export_jobs'[j].status = export_jobs[j].status
            /\ export_jobs'[j].completed_at = export_jobs[j].completed_at
            /\ export_jobs'[j].file_path = export_jobs[j].file_path
            /\ export_jobs'[j].error = export_jobs[j].error]_vars

(***************************************************************************)
(* Claim about the frame of the registry operations, checked under         *)
(* SpecFrame.                                                              *)
(***************************************************************************)
\* C30: no step removes a job; a step changes or creates the record of at most
\* one job; a record appears only as a new Running job; a step that changes a
\* record changes either its logs alone or its status, completed_at, file_path
\* and error alone; and a step of a log stream or of get_job_status changes no
\* record.
C30_Frame ==
    [][/\ \A j \in DOMAIN export_jobs : j \in DOMAIN export_jobs'
       /\ \A j \in DOMAIN export_jobs' \ DOMAIN export_jobs :
             /\ export_jobs'[j] = NewJob(j, now)
             /\ \A i \in DOMAIN export_jobs : export_jobs'[i] = export_jobs[i]
       /\ \A j \in DOMAIN export_jobs :
             export_jobs'[j] # export_jobs[j] =>
               /\ \A i \in DOMAIN export_jobs' \ {j} :
                     i \in DOMAIN export_jobs /\ export_jobs'[i] = export_jobs[i]
               /\ export_jobs'[j].job_id = export_jobs[j].job_id
               /\ export_jobs'[j].started_at = export_jobs[j].started_at
               /\ \/ export_jobs'[j] = [export_jobs[j] EXCEPT !.logs = export_jobs'[j].logs]
                  \/ export_jobs'[j].logs = export_jobs[j].logs
       /\ (conn' # conn \/ handler' # handler) => export_jobs' = export_jobs]_vars

\* Two jobs side by side, one finalized with a log line and one Running with
\* none, a stream that has delivered the line and a status request answered.
C30_Witness ==
    /\ DOMAIN export_jobs = FrameIds
    /\ \E j \in FrameIds, i \in FrameIds :
          /\ export_jobs[j].status = "Failed" /\ Len(export_jobs[j].logs) = 1
          /\ export_jobs[i] = NewJob(i, now)
          /\ \E s \in Conns : conn[s].job = j /\ conn[s].delivered = export_jobs[j].logs
                              /\ conn[s].delivered # <<>>
          /\ \E h \in Handlers : handler[h].resp.code = "200" /\ handler[h].job = i

(***************************************************************************)
(* Claim about the registry lock, checked under SpecLock.                  *)
(***************************************************************************)
\* C21: no handler is waiting on file I/O while it holds a guard of the job
\* registry's lock.
C21_NoLockAcrossIo ==
    \A h \in Handlers : handler[h].guard => handler[h].pc \notin IoWaits

(***************************************************************************)
(* Claims about utils/filter.rs, checked under SpecParse and SpecFilter.   *)
(***************************************************************************)
\* The tokens of an expression: what lies between commas and whitespace.
RECURSIVE TokensBetween(_, _, _)
TokensBetween(s, cur, acc) ==
    IF s = <<>>
    THEN IF cur = <<>> THEN acc ELSE Append(acc, cur)
    ELSE IF Head(s) \in Whitespace \cup {","}
         THEN TokensBetween(Tail(s), <<>>, IF cur = <<>> THEN acc ELSE Append(acc, cur))
         ELSE TokensBetween(Tail(s), Append(cur, Head(s)), acc)

IsOrAnd(t) == EqIgnoreAsciiCase(t, KwOr) \/ EqIgnoreAsciiCase(t, KwAnd)
IsNegation(t) == EqIgnoreAsciiCase(t, KwNot) \/ t = <<"-">>

\* The tokens left once OR and AND are dropped.
Remaining(s) ==
    LET Kept(t) == ~IsOrAnd(t)
    IN SelectSeq(TokensBetween(s, <<>>, <<>>), Kept)

\* Token i of the remaining ones is excluded: it starts with '-' or the token
\* before it is NOT or a '-' standing alone.
Excluded(R, i) == Head(R[i]) = "-" \/ (i > 1 /\ IsNegation(R[i - 1]))

\* The remaining tokens from i on that are (excluded = TRUE) or are not
\* (excluded = FALSE) excluded, in order, without a leading '-'.
RECURSIVE Classified(_, _, _)
Classified(R, i, excluded) ==
    IF i > Len(R) THEN <<>>
    ELSE IF ~IsNegation(R[i]) /\ Excluded(R, i) = excluded
         THEN <<IF Head(R[i]) = "-" THEN Tail(R[i]) ELSE R[i]>> \o Classified(R, i + 1, excluded)
         ELSE Classified(R, i + 1, excluded)

\* C23: parse_pattern_expression returns, in input order, as excludes the
\* tokens that start with '-' (without it) or follow NOT or a lone '-', and as
\* includes the other tokens, OR, AND and the negations aside; with no include
\* token the includes are ["*"].
C23_ParsePatternExpression ==
    filter.pc = "parsed" =>
        LET R == Remaining(filter.expr)
            inc == Classified(R, 1, FALSE)
        IN /\ filter.includes = IF inc = <<>> THEN << <<"*">> >> ELSE inc
           /\ filter.excludes = Classified(R, 1, TRUE)

\* "NoT x,*" parsed: the token after NOT is excluded, the one after it is not.
C23_Witness ==
    /\ filter.pc = "parsed"
    /\ filter.expr = <<"N", "o", "T", " ", "x", ",", "*">>
    /\ filter.includes = << <<"*">> >>
    /\ filter.excludes = << <<"x">> >>

\* A pattern matches a name as a whole, '*' standing for any sequence of
\* characters and every other character for itself: pattern from i on against
\* name from k on.
RECURSIVE WholeMatch(_, _, _, _)
WholeMatch(pattern, i, name, k) ==
    IF i > Len(pattern) THEN k > Len(name)
    ELSE IF pattern[i] = "*"
         THEN \/ WholeMatch(pattern, i + 1, name, k)
              \/ k <= Len(name) /\ WholeMatch(pattern, i, name, k + 1)
         ELSE /\ k <= Len(name)
              /\ name[k] = pattern[i]
              /\ WholeMatch(pattern, i + 1, name, k + 1)

\* C24: filter_names returns, in input order, exactly the names that match
\* some include pattern and no exclude pattern of the parsed expression.
C24_FilterNames ==
    filter.pc = "filtered" =>
        LET Wanted(name) ==
               /\ \E i \in 1..Len(filter.includes) : WholeMatch(filter.includes[i], 1, name, 1)
               /\ ~\E i \in 1..Len(filter.excludes) : WholeMatch(filter.excludes[i], 1, name, 1)
        IN filter.result = SelectSeq(filter.names, Wanted)

====
